---- MODULE Spec2Model ----
(***************************************************************************)
(* Model of the warehouse-network optimizer: optimization.optimize and the *)
(* helpers it uses (_haversine_vec, _drive_time_matrix, _assign,           *)
(* _transfer_time_multi, utils.warehousing_cost, utils.get_drive_time_     *)
(* matrix).                                                                *)
(*                                                                         *)
(* Numbers.  The program computes in IEEE doubles; the model computes in   *)
(* integers.  Angles are fixed point (micro-radians), distances are whole  *)
(* miles, times are whole minutes, demand is in lbs, inbound shares are in *)
(* hundredths (app.py hands optimize pct/100) and demands are multiples of *)
(* 100 so that demand * share stays whole.  Sequences are 1-based; center  *)
(* indices stored in the data (Warehouse, idx) are 0-based as in the code. *)
(***************************************************************************)
EXTENDS Integers, Sequences, FiniteSets, TLC

VARIABLES
    \* ---- arguments of optimize (fixed after Init)
    df, k_vals, fixed_centers, rdc_list, inbound_pts, consider_inbound,
    use_drive_times, ors_api_key, rates,
    \* ---- locals of optimize
    pc, ki, centers, assigned, out_cost, wh_cost, demand_list,
    in_cost, trans_cost, total_cost, best,
    \* ---- position of the loop of _transfer_time_multi
    sp,
    \* ---- observation of the run (not program state): the matrix _assign
    \* took its minima from, the times of each supply point, the lookups of
    \* the current pass, the calls made to the routing service, the k's
    \* evaluated, the least total seen and the position in k_vals of the
    \* first k that reached it, the exception that left optimize, and whether
    \* a lookup of this run of optimize has failed so far
    dists, in_times, lookups, ors_calls, evaluated, min_total, first_min,
    error, failed_before

args == <<df, k_vals, fixed_centers, rdc_list, inbound_pts, consider_inbound,
          use_drive_times, ors_api_key, rates>>
\* the arguments other than the demand table
params == <<k_vals, fixed_centers, rdc_list, inbound_pts, consider_inbound,
            use_drive_times, ors_api_key, rates>>
locals == <<centers, assigned, out_cost, wh_cost, demand_list, in_cost,
            trans_cost, total_cost>>
vars == <<args, pc, ki, locals, best, sp, dists, in_times, lookups,
          ors_calls, evaluated, min_total, first_min, error, failed_before>>

-----------------------------------------------------------------------------
(* Bounds of the model *)

\* largest candidate warehouse count k
MaxK == 2

-----------------------------------------------------------------------------
(* Generic helpers *)

Max(a, b) == IF a >= b THEN a ELSE b

RECURSIVE SumSeq(_)
SumSeq(s) == IF s = <<>> THEN 0 ELSE Head(s) + SumSeq(Tail(s))

\* Python's None as a credential
None == "<None>"

\* Python's None as `best`: no Solution retained yet
NoSolution == [k |-> 0]

\* Python truthiness of a credential: None and "" are falsy
Truthy(key) == key # None /\ key # ""

-----------------------------------------------------------------------------
(* _haversine_vec: great-circle distance in miles, fixed point *)

\* 3958.8 miles, in tenths of a mile
EARTH_RADIUS_MILES == 39588

\* np.radians: degrees -> micro-radians (pi/180 = 0.017453)
Radians(deg) == deg * 17453

\* sin of x micro-radians, in micro-units (x - x^3/6)
Sin(x) == x - (((x * x) \div 1000000) * x) \div 6000000

\* cos of x micro-radians, in units of 1e-4 (1 - x^2/2)
Cos(x) == 10000 - ((x \div 100) * (x \div 100)) \div 20000

\* floor of the square root, by bisection on lo <= sqrt(a) < hi
RECURSIVE SqrtBetween(_, _, _)
SqrtBetween(a, lo, hi) ==
    IF hi - lo <= 1 THEN lo
    ELSE LET mid == (lo + hi) \div 2
         IN  IF mid * mid <= a THEN SqrtBetween(a, mid, hi)
             ELSE SqrtBetween(a, lo, mid)
Sqrt(a) == SqrtBetween(a, 0, 40000)

\* arcsin of z (units of 1e-4), in units of 1e-4 (z + z^3/6)
ArcSin(z) == z + (z * z * z) \div 600000000

\* the haversine formula: miles between (lon1, lat1) and (lon2, lat2),
\* all in degrees
HaversineFormula(lon1, lat1, lon2, lat2) ==
    LET rlon1 == Radians(lon1)
        rlat1 == Radians(lat1)
        rlon2 == Radians(lon2)
        rlat2 == Radians(lat2)
        dlon  == rlon2 - rlon1
        dlat  == rlat2 - rlat1
        sdlat == Sin(dlat \div 2)
        sdlon == Sin(dlon \div 2)
        \* a, in units of 1e-8
        a == (sdlat * sdlat) \div 10000
             + (((Cos(rlat1) * Cos(rlat2)) \div 10000)
                  * ((sdlon * sdlon) \div 10000)) \div 10000
    IN  (EARTH_RADIUS_MILES * 2 * ArcSin(Sqrt(a))) \div 100000

\* the coordinates of the model: whole degrees, <<lon, lat>>
Sites == (0..3) \X (0..2)

\* the formula over every pair of sites, computed once
HaversineTable ==
    [a \in Sites, b \in Sites |-> HaversineFormula(a[1], a[2], b[1], b[2])]

_haversine_vec(lon1, lat1, lon2, lat2) ==
    HaversineTable[<<lon1, lat1>>, <<lon2, lat2>>]

\* the geometric fallback: miles / 50 * 60 minutes
FallbackMinutes(lon1, lat1, lon2, lat2) ==
    (_haversine_vec(lon1, lat1, lon2, lat2) * 60) \div 50

-----------------------------------------------------------------------------
(* utils.get_drive_time_matrix and the routing service *)

\* The duration, in seconds, the routing service reports for a pair when it
\* answers: a road network of 30 minutes per degree of the longer leg plus
\* 10 minutes of access, unrelated to the great-circle distance.
AbsDiff(a, b) == IF a >= b THEN a - b ELSE b - a

RoutedSecs(o, d) ==
    1800 * Max(AbsDiff(o[1], d[1]), AbsDiff(o[2], d[2])) + 600

Durations(origins, destinations) ==
    [i \in 1..Len(origins) |->
        [j \in 1..Len(destinations) |->
            RoutedSecs(origins[i], destinations[j])]]

\* the ways one call of the client can end: the durations, an
\* openrouteservice ApiError, or any other exception
ProviderResponses == {"durations", "ApiError", "Exception"}

\* result of a call: a value, None, or an exception leaving the function
RetNone == [tag |-> "None", val |-> <<>>]
Raise   == [tag |-> "raise", val |-> <<>>]
Ret(v)  == [tag |-> "value", val |-> v]

\* utils.get_drive_time_matrix: seconds, None on ApiError; any other
\* exception of the client leaves the function
get_drive_time_matrix(origins, destinations, api_key, resp) ==
    IF resp = "durations" THEN Ret(Durations(origins, destinations))
    ELSE IF resp = "ApiError" THEN RetNone
    ELSE Raise

\* a _drive_time_matrix that stops asking the service once a lookup failed
CallsUnlessFailed(api_key) == Truthy(api_key) /\ ~failed_before

\* _drive_time_matrix's use of the service: no call without a credential
Calls_drive_time_matrix(api_key) == Truthy(api_key)

\* _drive_time_matrix without its `except Exception`
_drive_time_matrix_no_except(orig, dest, api_key, resp) ==
    IF ~Calls_drive_time_matrix(api_key) THEN RetNone
    ELSE LET secs == get_drive_time_matrix(orig, dest, api_key, resp)
         IN  IF secs.tag = "raise" THEN Raise
             ELSE IF secs.tag = "None" THEN RetNone
             ELSE Ret([i \in 1..Len(secs.val) |->
                        [j \in 1..Len(secs.val[i]) |->
                            secs.val[i][j] \div 60]])

\* _drive_time_matrix: minutes, or None when the key is missing or the
\* lookup failed in any way
_drive_time_matrix(orig, dest, api_key, resp) ==
    IF ~Calls_drive_time_matrix(api_key) THEN RetNone
    ELSE LET secs == get_drive_time_matrix(orig, dest, api_key, resp)
         IN  IF secs.tag = "raise" THEN RetNone
             ELSE IF secs.tag = "None" THEN RetNone
             ELSE Ret([i \in 1..Len(secs.val) |->
                        [j \in 1..Len(secs.val[i]) |->
                            secs.val[i][j] \div 60]])

-----------------------------------------------------------------------------
(* _assign *)

\* an argmin that keeps the last minimum of the row
RECURSIVE ArgMinLast(_, _, _)
ArgMinLast(row, j, bestj) ==
    IF j > Len(row) THEN bestj - 1
    ELSE IF row[j] <= row[bestj] THEN ArgMinLast(row, j + 1, j)
    ELSE ArgMinLast(row, j + 1, bestj)

\* numpy argmin of a row: 0-based index of the first minimum
RECURSIVE ArgMinFrom(_, _, _)
ArgMinFrom(row, j, bestj) ==
    IF j > Len(row) THEN bestj - 1
    ELSE IF row[j] < row[bestj] THEN ArgMinFrom(row, j + 1, j)
    ELSE ArgMinFrom(row, j + 1, bestj)
ArgMin(row) == ArgMinFrom(row, 2, 1)

StoreCoords(d) == [i \in 1..Len(d) |-> <<d[i].Longitude, d[i].Latitude>>]

\* the haversine -> minutes matrix of the fallback branch
FallbackMatrix(d, cs) ==
    [i \in 1..Len(d) |->
        [j \in 1..Len(cs) |->
            FallbackMinutes(d[i].Longitude, d[i].Latitude, cs[j][1], cs[j][2])]]

\* _assign: idx, dist_min (and the matrix it was taken from)
_assign(d, cs, api_key, resp) ==
    LET time_mat == _drive_time_matrix(StoreCoords(d), cs, api_key, resp)
        m   == IF time_mat.tag = "value" THEN time_mat.val
               ELSE FallbackMatrix(d, cs)
        idx == [i \in 1..Len(d) |-> ArgMin(m[i])]
    IN  [tag      |-> IF time_mat.tag = "raise" THEN "raise" ELSE "value",
         idx      |-> idx,
         dist_min |-> [i \in 1..Len(d) |-> m[i][idx[i] + 1]],
         dists    |-> m,
         src      |-> IF time_mat.tag = "value" THEN "routed" ELSE "fallback"]

-----------------------------------------------------------------------------
(* cost primitives *)

\* utils.warehousing_cost
warehousing_cost(demand, sqft_per_lb, cost_per_sqft, fixed) ==
    fixed + demand * sqft_per_lb * cost_per_sqft

\* assigned.loc[assigned['Warehouse'] == i, 'DemandLbs'].sum()
RECURSIVE DemandAt(_, _)
DemandAt(a, i) ==
    IF a = <<>> THEN 0
    ELSE (IF Head(a).Warehouse = i THEN Head(a).DemandLbs ELSE 0)
         + DemandAt(Tail(a), i)

\* (assigned['TimeMin'] * assigned['DemandLbs'] * rate_out_min).sum()
OutCost(a, rate_out_min) ==
    SumSeq([i \in 1..Len(a) |-> a[i].TimeMin * a[i].DemandLbs * rate_out_min])

\* the loop of lines 152-155 counting centers from 1
DemandListFromOne(a, cs) == [i \in 1..Len(cs) |-> DemandAt(a, i)]

\* the loop of lines 152-155: per-center demand and warehousing cost
DemandList(a, cs) == [i \in 1..Len(cs) |-> DemandAt(a, i - 1)]

WhCost(dl, r) ==
    SumSeq([i \in 1..Len(dl) |->
              warehousing_cost(dl[i], r.sqft_per_lb, r.cost_sqft, r.fixed_cost)])

\* the inbound term without the supply point's share
InboundTermNoShare(times, demand_per_wh, pct, inbound_rate) ==
    SumSeq([j \in 1..Len(times) |->
              times[j] * demand_per_wh[j] * inbound_rate])

\* one pass of the loop of _transfer_time_multi:
\* (times * demand_per_wh * pct * inbound_rate).sum(), pct in hundredths
InboundTerm(times, demand_per_wh, pct, inbound_rate) ==
    SumSeq([j \in 1..Len(times) |->
              (times[j] * demand_per_wh[j] * pct * inbound_rate) \div 100])

\* the times of one supply point to every center, as _transfer_time_multi
\* gets them
SupplyTimes(pt, cs, api_key, resp) ==
    LET times == _drive_time_matrix(<<<<pt[1], pt[2]>>>>, cs, api_key, resp)
    IN  [tag   |-> IF times.tag = "raise" THEN "raise" ELSE "value",
         times |-> IF times.tag = "value" THEN times.val[1]
                   ELSE [j \in 1..Len(cs) |->
                           FallbackMinutes(pt[1], pt[2], cs[j][1], cs[j][2])],
         src   |-> IF times.tag = "value" THEN "routed" ELSE "fallback"]

\* _drive_time_single
_drive_time_single(lon1, lat1, lon2, lat2, api_key, resp) ==
    LET mat == _drive_time_matrix(<<<<lon1, lat1>>>>, <<<<lon2, lat2>>>>, api_key, resp)
    IN  IF mat.tag = "value" THEN mat.val[1][1]
        ELSE FallbackMinutes(lon1, lat1, lon2, lat2)

\* _inbound_cost_to_multiple_rdcs (optimize never calls it): total demand
\* split evenly over the redistribute-only centers, pct in hundredths
_inbound_cost_to_multiple_rdcs(total_demand, pts, inbound_rate, rdc_only_coords, api_key, resp) ==
    IF pts = <<>> \/ rdc_only_coords = <<>> THEN 0
    ELSE LET share == total_demand \div Len(rdc_only_coords)
             PairCost(r, q) ==
                 (_drive_time_single(rdc_only_coords[r][1], rdc_only_coords[r][2],
                                     pts[q][1], pts[q][2], api_key, resp)
                    * share * pts[q][3] * inbound_rate) \div 100
         IN  SumSeq([r \in 1..Len(rdc_only_coords) |->
                       SumSeq([q \in 1..Len(pts) |-> PairCost(r, q)])])

-----------------------------------------------------------------------------
(* Inputs *)

Row(lon, lat, lbs) == [Longitude |-> lon, Latitude |-> lat, DemandLbs |-> lbs]

\* demand tables: one row per store
DemandTables ==
    { <<Row(0, 0, 100)>>,
      <<Row(0, 0, 100), Row(2, 0, 200)>>,
      <<Row(2, 0, 200), Row(0, 0, 100), Row(0, 1, 100)>> }

\* k_vals: every run of consecutive counts within 1..MaxK, ascending (the
\* range app.py builds, or its single fixed k) or descending
Range(lo, hi) == [i \in 1..(hi - lo + 1) |-> lo + i - 1]
Reverse(q) == [i \in 1..Len(q) |-> q[Len(q) + 1 - i]]
KValLists ==
    LET up == {Range(lo, hi) : lo \in 1..MaxK, hi \in 1..MaxK} \ {<<>>}
    IN  up \cup {Reverse(q) : q \in up}

\* caller-pinned centers: <<lon, lat>>
FixedCenterLists == { <<>>, << <<2, 0>> >>, << <<2, 0>>, <<0, 1>> >> }

\* rdc_list as app.py builds it (enabled centers only), and the supply
\* points <<lon, lat, pct>>, pct in hundredths
Rdc(lon, lat, sdc) == [coords |-> <<lon, lat>>, is_sdc |-> sdc]
TwoRdcs == <<Rdc(3, 0, FALSE), Rdc(1, 2, FALSE)>>
OneSdc == <<Rdc(2, 0, TRUE)>>
OneSupply == << <<3, 1, 100>> >>
TwoSupplies == << <<3, 1, 100>>, <<0, 2, 50>> >>

\* the inbound and redistribution arguments of one call
Topology(ci, pts, rl) ==
    [consider_inbound |-> ci, inbound_pts |-> pts, rdc_list |-> rl]
Topologies ==
    { Topology(FALSE, <<>>, <<>>),
      Topology(FALSE, TwoSupplies, TwoRdcs),
      Topology(TRUE, <<>>, OneSdc),
      Topology(TRUE, OneSupply, TwoRdcs),
      Topology(TRUE, TwoSupplies, OneSdc) }

\* <<use_drive_times, ors_api_key>>
Credentials == { <<TRUE, "key">>, <<TRUE, "">>, <<TRUE, None>>, <<FALSE, "key">> }

Rates ==
    { [rate_out_min |-> 2, sqft_per_lb |-> 3, cost_sqft |-> 5, fixed_cost |-> 1000,
       inbound_rate_min |-> 3, transfer_rate_min |-> 7,
       rdc_sqft_per_lb |-> 4, rdc_cost_per_sqft |-> 6] }

\* where KMeans may put a centroid
CentroidSites == { <<1, 0>>, <<0, 1>> }

-----------------------------------------------------------------------------
(* optimize *)

\* the credential handed on whatever use_drive_times says
ApiKeyAlways == ors_api_key

\* the credential every lookup gets: ors_api_key if use_drive_times else None
ApiKey == IF use_drive_times THEN ors_api_key ELSE None

\* init_pts: store coordinates stacked over the fixed centers
init_pts == StoreCoords(df) \o fixed_centers

k_eff(k) == Max(k, Len(fixed_centers))

\* KMeans(n_clusters = n).fit(init_pts).cluster_centers_: n centroids
ClusterCenters(n) == [1..n -> CentroidSites]

\* lines 138-139 left out: the centroids stay
NoOverride(cc, fc) == cc

\* lines 138-139: the fixed centers overwrite the first slots
Override(cc, fc) ==
    [i \in 1..Len(cc) |-> IF i <= Len(fc) THEN fc[i] ELSE cc[i]]

Init ==
    /\ df \in DemandTables
    /\ k_vals \in KValLists
    /\ fixed_centers \in FixedCenterLists
    /\ \E t \in Topologies :
          /\ consider_inbound = t.consider_inbound
          /\ inbound_pts = t.inbound_pts
          /\ rdc_list = t.rdc_list
    /\ \E c \in Credentials : use_drive_times = c[1] /\ ors_api_key = c[2]
    /\ rates \in Rates
    /\ pc = "loop"
    /\ ki = 1
    /\ centers = <<>>
    /\ assigned = <<>>
    /\ out_cost = 0
    /\ wh_cost = 0
    /\ demand_list = <<>>
    /\ in_cost = 0
    /\ trans_cost = 0
    /\ total_cost = 0
    /\ best = NoSolution
    /\ sp = 1
    /\ dists = <<>>
    /\ in_times = <<>>
    /\ lookups = <<>>
    /\ ors_calls = 0
    /\ evaluated = <<>>
    /\ min_total = 0
    /\ first_min = 0
    /\ error = "none"
    /\ failed_before = FALSE

\* lines 129-139: next k, clustering, fixed-center override.  KMeans refuses
\* more clusters than samples with a ValueError, which leaves optimize.
KMeansFit ==
    /\ pc = "loop"
    /\ LET n == k_eff(k_vals[ki])
       IN  IF n > Len(init_pts)
           THEN /\ pc' = "raised"
                /\ error' = "ValueError"
                /\ UNCHANGED centers
           ELSE /\ \E cc \in ClusterCenters(n) :
                      centers' = Override(cc, fixed_centers)
                /\ pc' = "assign"
                /\ UNCHANGED error
    /\ UNCHANGED <<args, ki, assigned, out_cost, wh_cost, demand_list, in_cost,
                   trans_cost, total_cost, best, sp, dists, in_times, lookups,
                   ors_calls, evaluated, min_total, first_min, failed_before>>

\* `assigned = df` in place of the copy: the two columns land in the
\* caller's table
df_without_copy(d, a) == a

\* lines 142-144: the Warehouse and TimeMin columns are written to a copy,
\* the caller's table keeps its rows as they were
df_after_columns(d, a) == d

\* lines 141-159: assignment, outbound and warehousing cost
Assign ==
    /\ pc = "assign"
    /\ \E resp \in ProviderResponses :
       \E r \in {_assign(df, centers, ApiKey, resp)} :
       \E a \in {[i \in 1..Len(df) |->
                     [Longitude |-> df[i].Longitude,
                      Latitude  |-> df[i].Latitude,
                      DemandLbs |-> df[i].DemandLbs,
                      Warehouse |-> r.idx[i],
                      TimeMin   |-> r.dist_min[i]]]} :
       \E dl \in {DemandList(a, centers)} :
         LET called == Calls_drive_time_matrix(ApiKey)
         IN  /\ lookups' = <<[site |-> "assign",
                              resp |-> IF called THEN resp ELSE "-",
                              called |-> called, src |-> r.src,
                              after_failure |-> failed_before]>>
             /\ ors_calls' = ors_calls + (IF called THEN 1 ELSE 0)
             /\ failed_before' =
                    (failed_before \/ (called /\ resp # "durations"))
             /\ IF r.tag = "raise"
                THEN /\ pc' = "raised"
                     /\ error' = "provider"
                     /\ UNCHANGED <<df, assigned, out_cost, wh_cost,
                                    demand_list, in_cost, trans_cost, dists,
                                    in_times, sp>>
                ELSE /\ assigned' = a
                     /\ df' = df_after_columns(df, a)
                     /\ dists' = r.dists
                     /\ out_cost' = OutCost(a, rates.rate_out_min)
                     /\ demand_list' = dl
                     /\ wh_cost' = WhCost(dl, rates)
                     /\ in_cost' = 0
                     /\ trans_cost' = 0
                     /\ in_times' = <<>>
                     /\ sp' = 1
                     /\ pc' = IF consider_inbound /\ inbound_pts # <<>>
                              THEN "inbound" ELSE "total"
                     /\ UNCHANGED error
    /\ UNCHANGED <<params, ki, centers, total_cost, best, evaluated, min_total,
                   first_min>>

\* lines 160-163 and 52-63: one supply point of _transfer_time_multi
InboundLookup ==
    /\ pc = "inbound"
    /\ \E resp \in ProviderResponses :
       \E r \in {SupplyTimes(inbound_pts[sp], centers, ApiKey, resp)} :
         LET pt == inbound_pts[sp]
             called == Calls_drive_time_matrix(ApiKey)
         IN  /\ lookups' = Append(lookups,
                             [site |-> "inbound",
                              resp |-> IF called THEN resp ELSE "-",
                              called |-> called, src |-> r.src,
                              after_failure |-> failed_before])
             /\ ors_calls' = ors_calls + (IF called THEN 1 ELSE 0)
             /\ failed_before' =
                    (failed_before \/ (called /\ resp # "durations"))
             /\ IF r.tag = "raise"
                THEN /\ pc' = "raised"
                     /\ error' = "provider"
                     /\ UNCHANGED <<in_cost, in_times, sp>>
                ELSE /\ in_cost' = in_cost
                          + InboundTerm(r.times, demand_list, pt[3],
                                        rates.inbound_rate_min)
                     /\ in_times' = Append(in_times, r.times)
                     /\ sp' = sp + 1
                     /\ pc' = IF sp < Len(inbound_pts) THEN "inbound" ELSE "total"
                     /\ UNCHANGED error
    /\ UNCHANGED <<args, ki, centers, assigned, out_cost, wh_cost, demand_list,
                   trans_cost, total_cost, best, dists, evaluated, min_total,
                   first_min>>

\* the Solution record of lines 168-178
Solution(k, t) ==
    [k |-> k, centers |-> centers, assigned |-> assigned, out_cost |-> out_cost,
     wh_cost |-> wh_cost, in_cost |-> in_cost, trans_cost |-> trans_cost,
     total_cost |-> t, demand_per_wh |-> demand_list]

\* the comparison of line 167 turned around / made non-strict
BetterGreater(t, b) == b = NoSolution \/ t > b.total_cost
BetterOrEqual(t, b) == b = NoSolution \/ t <= b.total_cost

\* line 167: does the candidate replace the retained best
Better(t, b) == b = NoSolution \/ t < b.total_cost

Min(a, b) == IF a <= b THEN a ELSE b

\* line 165
Total ==
    /\ pc = "total"
    /\ total_cost' = out_cost + wh_cost + in_cost + trans_cost
    /\ pc' = "compare"
    /\ UNCHANGED <<args, ki, centers, assigned, out_cost, wh_cost, demand_list,
                   in_cost, trans_cost, best, sp, dists, in_times, lookups,
                   ors_calls, evaluated, min_total, first_min, error,
                   failed_before>>

\* lines 167-180: comparison with the best so far, next k or return.
\* The next pass of the loop binds every local afresh before reading it, so
\* the finished pass's locals are dead here and are cleared.
Compare ==
    /\ pc = "compare"
    /\ best' = IF Better(total_cost, best)
               THEN Solution(k_vals[ki], total_cost) ELSE best
    /\ min_total' = IF evaluated = <<>> THEN total_cost
                    ELSE Min(min_total, total_cost)
    /\ first_min' = IF evaluated = <<>> \/ total_cost < min_total
                    THEN ki ELSE first_min
    /\ evaluated' = Append(evaluated, k_vals[ki])
    /\ ki' = ki + 1
    /\ pc' = IF ki < Len(k_vals) THEN "loop" ELSE "done"
    /\ centers' = <<>>
    /\ assigned' = <<>>
    /\ demand_list' = <<>>
    /\ out_cost' = 0
    /\ wh_cost' = 0
    /\ in_cost' = 0
    /\ trans_cost' = 0
    /\ total_cost' = 0
    /\ dists' = <<>>
    /\ in_times' = <<>>
    /\ lookups' = <<>>
    /\ sp' = 1
    /\ UNCHANGED <<args, ors_calls, error, failed_before>>

Next == KMeansFit \/ Assign \/ InboundLookup \/ Total \/ Compare

Spec == Init /\ [][Next]_vars

-----------------------------------------------------------------------------
(* Properties *)

\* the pass of the loop has built everything a Solution holds
Built == pc = "compare"

\* _assign has run in the current pass
Assigned == pc \in {"inbound", "total", "compare"}

DemandOf(d) == SumSeq([i \in 1..Len(d) |-> d[i].DemandLbs])

\* the minutes the routing service reports for a pair
RoutedMinutes(o, d) == RoutedSecs(o, d) \div 60

\* C1: when optimize returns, every k of k_vals has been evaluated, in
\* order, none left out, and the total_cost of the returned Solution is the
\* least of the totals computed for the k's.
C1_ReturnsMinimum ==
    pc = "done" =>
        /\ evaluated = k_vals
        /\ best # NoSolution
        /\ best.total_cost = min_total

\* a later k was strictly cheaper than the first and is the one returned
C1_Witness ==
    /\ pc = "done"
    /\ Len(k_vals) = 2
    /\ best.k = k_vals[2]
    /\ best.total_cost = min_total

\* C2: the first k evaluated becomes the best; the retained best is replaced
\* only by the Solution of a later k whose total is strictly lower, a tie
\* keeps it; so the Solution returned is the one of the first k in k_vals
\* that reached the least total.
C2_FirstFoundKept ==
    /\ [][pc = "compare" =>
            /\ best = NoSolution => best' = Solution(k_vals[ki], total_cost)
            /\ best # NoSolution /\ best' # best =>
                   /\ total_cost < best.total_cost
                   /\ best' = Solution(k_vals[ki], total_cost)
            /\ best # NoSolution /\ total_cost = best.total_cost => best' = best
         ]_vars
    /\ [](pc = "done" => best.k = k_vals[first_min])

\* a later k ties with the retained best
C2_Witness ==
    /\ pc = "compare"
    /\ ki = 2
    /\ best # NoSolution
    /\ total_cost = best.total_cost
    /\ k_vals[ki] # best.k

\* C3: _assign gives every demand point a center whose time is no larger
\* than its time to any other center, that minimum as its time, and the
\* lowest index among the centers that tie; the matrix is the routed one
\* when the lookup answered and the haversine / 50 * 60 one otherwise.
C3_AssignNearest ==
    Assigned =>
        /\ dists = [i \in 1..Len(df) |-> [j \in 1..Len(centers) |->
                IF lookups[1].src = "routed"
                THEN RoutedMinutes(<<df[i].Longitude, df[i].Latitude>>, centers[j])
                ELSE FallbackMinutes(df[i].Longitude, df[i].Latitude,
                                     centers[j][1], centers[j][2])]]
        /\ \A i \in 1..Len(df) :
              LET w == assigned[i].Warehouse + 1
              IN  /\ w \in 1..Len(centers)
                  /\ \A j \in 1..Len(centers) : dists[i][w] <= dists[i][j]
                  /\ assigned[i].TimeMin = dists[i][w]
                  /\ \A j \in 1..(w - 1) : dists[i][j] > dists[i][w]

\* two different centers tie for a point in a routed matrix, and another
\* point is nearer to the second center
C3_Witness ==
    /\ Assigned
    /\ lookups[1].src = "routed"
    /\ Len(centers) = 2
    /\ centers[1] # centers[2]
    /\ \E i \in 1..Len(df) : dists[i][1] = dists[i][2]
    /\ \E i \in 1..Len(df) : assigned[i].Warehouse = 1

\* C4: in every Solution each demand point has one center index in
\* 0..len(centers)-1 and the per-center demand totals add up to the total
\* DemandLbs of the input table.
SolutionConserves(a, cs, dl) ==
    /\ Len(a) = Len(df)
    /\ \A i \in 1..Len(a) : a[i].Warehouse \in 0..(Len(cs) - 1)
    /\ Len(dl) = Len(cs)
    /\ SumSeq(dl) = DemandOf(df)

C4_DemandConserved ==
    /\ Built => SolutionConserves(assigned, centers, demand_list)
    /\ best # NoSolution =>
           SolutionConserves(best.assigned, best.centers, best.demand_per_wh)

\* two centers, both with demand
C4_Witness ==
    /\ Built
    /\ Len(centers) = 2
    /\ demand_list[1] > 0
    /\ demand_list[2] > 0

\* C5: the center list of the Solution of k has max(k, number of fixed
\* centers) entries, the first of which are the fixed centers, in the
\* caller's order.
FixedKept(k, cs) ==
    /\ Len(cs) = Max(k, Len(fixed_centers))
    /\ \A i \in 1..Len(fixed_centers) : cs[i] = fixed_centers[i]

C5_FixedCentersKept ==
    /\ pc \in {"assign", "inbound", "total", "compare"} =>
           FixedKept(k_vals[ki], centers)
    /\ best # NoSolution => FixedKept(best.k, best.centers)

\* more fixed centers than k
C5_Witness ==
    /\ Built
    /\ k_vals[ki] = 1
    /\ Len(fixed_centers) = 2
    /\ centers = fixed_centers

\* C6: with two redistribute-only centers in rdc_list and one supply point
\* of share 1, the returned transfer cost is positive and is the sum over the
\* two centers of travel_time(rdc, supply) * (total_demand / 2) * 1 *
\* transfer_rate.
RdcOnlyCoords ==
    LET only == SelectSeq(rdc_list, LAMBDA r : ~r.is_sdc)
    IN  [i \in 1..Len(only) |-> only[i].coords]

C6_TransferCost ==
    (/\ pc = "done"
     /\ Len(RdcOnlyCoords) = 2
     /\ Len(inbound_pts) = 1
     /\ inbound_pts[1][3] = 100
     /\ consider_inbound)
    => /\ best.trans_cost > 0
       /\ \E resp \in ProviderResponses :
             best.trans_cost =
                 _inbound_cost_to_multiple_rdcs(DemandOf(df), inbound_pts,
                     rates.transfer_rate_min, RdcOnlyCoords, ApiKey, resp)

\* C7: a failure of the routing service in a lookup never leaves optimize
\* as an exception, and every pair of that lookup gets the haversine / 50 *
\* 60 time.
FailedLookup(l) == l.called /\ l.resp \in {"ApiError", "Exception"}

FallbackUsed(n) ==
    IF n = 1
    THEN dists = FallbackMatrix(df, centers)
    ELSE in_times[n - 1] =
            [j \in 1..Len(centers) |->
                FallbackMinutes(inbound_pts[n - 1][1], inbound_pts[n - 1][2],
                                centers[j][1], centers[j][2])]

C7_FailureFallsBack ==
    /\ error # "provider"
    /\ \A n \in 1..Len(lookups) :
          FailedLookup(lookups[n]) => lookups[n].src = "fallback" /\ FallbackUsed(n)

\* the assignment lookup ended in an exception other than ApiError, an
\* inbound lookup in an ApiError, and the pass went on to its total
C7_Witness ==
    /\ Built
    /\ Len(lookups) >= 2
    /\ lookups[1].called /\ lookups[1].resp = "Exception"
    /\ lookups[2].called /\ lookups[2].resp = "ApiError"

\* C8: without a credential (ors_api_key empty or None, or use_drive_times
\* false) the routing service is never contacted and every time used is the
\* haversine / 50 * 60 time.
NoCredential == ors_api_key = "" \/ ors_api_key = None \/ ~use_drive_times

C8_NoCredentialNoCall ==
    NoCredential =>
        /\ ors_calls = 0
        /\ \A n \in 1..Len(lookups) :
              /\ ~lookups[n].called
              /\ lookups[n].src = "fallback"
              /\ FallbackUsed(n)

\* a key is stored but use_drive_times is off, and assignment and inbound
\* lookups have run
C8_Witness ==
    /\ ~use_drive_times
    /\ ors_api_key = "key"
    /\ Built
    /\ Len(lookups) = 3
    /\ in_cost > 0

\* C9: the warehousing cost is the sum over the centers of fixed_cost +
\* demand * sqft_per_lb * cost_sqft, with rdc_sqft_per_lb and
\* rdc_cost_per_sqft in their place for a center that is a redistribution
\* center with a footprint ratio of its own.
IsRdc(c) == \E n \in 1..Len(rdc_list) : rdc_list[n].coords = c

C9_WarehousingCost ==
    Built =>
        wh_cost = SumSeq([i \in 1..Len(centers) |->
            IF IsRdc(centers[i]) /\ rates.rdc_sqft_per_lb # rates.sqft_per_lb
            THEN rates.fixed_cost
                 + demand_list[i] * rates.rdc_sqft_per_lb * rates.rdc_cost_per_sqft
            ELSE rates.fixed_cost
                 + demand_list[i] * rates.sqft_per_lb * rates.cost_sqft])

\* C10: the inbound cost is 0 when consider_inbound is false and otherwise
\* the sum over every (supply point, center) pair of travel_time * demand of
\* the center * share of the supply point * inbound rate.
TravelTime(q, j) ==
    IF lookups[q + 1].src = "routed"
    THEN RoutedMinutes(<<inbound_pts[q][1], inbound_pts[q][2]>>, centers[j])
    ELSE FallbackMinutes(inbound_pts[q][1], inbound_pts[q][2],
                         centers[j][1], centers[j][2])

C10_InboundCost ==
    /\ Built =>
          in_cost =
            IF ~consider_inbound THEN 0
            ELSE SumSeq([q \in 1..Len(inbound_pts) |->
                    SumSeq([j \in 1..Len(centers) |->
                        (TravelTime(q, j) * demand_list[j]
                           * inbound_pts[q][3] * rates.inbound_rate_min)
                        \div 100])])
    /\ best # NoSolution /\ ~consider_inbound => best.in_cost = 0

\* two supply points, one of share 1/2, and two centers with demand; one
\* lookup routed and one fallen back
C10_Witness ==
    /\ Built
    /\ consider_inbound
    /\ Len(inbound_pts) = 2
    /\ Len(centers) = 2
    /\ demand_list[1] > 0
    /\ demand_list[2] > 0
    /\ lookups[2].src = "routed"
    /\ lookups[3].src = "fallback"
    /\ in_cost > 0

\* C11: the center list handed to _assign holds no redistribute-only center
\* of rdc_list and holds every redistribute-and-serve center of it.
C11_ServeEligibleCenters ==
    Assigned \/ pc = "assign" =>
        \A n \in 1..Len(rdc_list) :
            IF rdc_list[n].is_sdc
            THEN \E j \in 1..Len(centers) : centers[j] = rdc_list[n].coords
            ELSE \A j \in 1..Len(centers) : centers[j] # rdc_list[n].coords

\* C12: a failed lookup leaves the later lookups of the run alone: a lookup
\* made after a failure, in the same pass or in the pass of a later k, still
\* asks the routing service, and takes the routed minutes for every pair
\* when the service answers.
RoutedUsed(n) ==
    IF n = 1
    THEN dists = [i \in 1..Len(df) |-> [j \in 1..Len(centers) |->
             RoutedMinutes(<<df[i].Longitude, df[i].Latitude>>, centers[j])]]
    ELSE in_times[n - 1] =
            [j \in 1..Len(centers) |->
                RoutedMinutes(<<inbound_pts[n - 1][1], inbound_pts[n - 1][2]>>,
                              centers[j])]

C12_FailureIsLocal ==
    \A n \in 1..Len(lookups) :
        lookups[n].after_failure =>
            /\ lookups[n].called
            /\ lookups[n].resp = "durations" =>
                   lookups[n].src = "routed" /\ RoutedUsed(n)

\* the second k of the run: a lookup of the first k had failed, the
\* assignment lookup is routed, the lookup of the first supply point fails
\* and the lookup of the second supply point is routed again
C12_Witness ==
    /\ Built
    /\ ki = 2
    /\ Len(lookups) = 3
    /\ lookups[1].after_failure
    /\ lookups[1].src = "routed" /\ RoutedUsed(1)
    /\ FailedLookup(lookups[2])
    /\ lookups[3].src = "routed" /\ RoutedUsed(3)

\* C13: the caller's demand table is never changed by optimize; a retained
\* best is changed by no step of a later k except the comparison, and by the
\* comparison only when the later total is strictly lower, and then every
\* field of it is the one built in that later pass; the rows of the
\* assignment of the best are the rows of the demand table.
RowsOf(a) ==
    [i \in 1..Len(a) |-> [Longitude |-> a[i].Longitude,
                          Latitude  |-> a[i].Latitude,
                          DemandLbs |-> a[i].DemandLbs]]

C13_SolutionFrozen ==
    /\ [][df' = df]_vars
    /\ [][best # NoSolution /\ best' # best =>
            /\ pc = "compare"
            /\ total_cost < best.total_cost
            /\ best' = [k |-> k_vals[ki], centers |-> centers,
                        assigned |-> assigned, out_cost |-> out_cost,
                        wh_cost |-> wh_cost, in_cost |-> in_cost,
                        trans_cost |-> trans_cost, total_cost |-> total_cost,
                        demand_per_wh |-> demand_list]
         ]_vars
    /\ [](best # NoSolution => RowsOf(best.assigned) = df)

\* a later k has been built from other centers and another assignment, at a
\* higher total, while the best of the first k is retained
C13_Witness ==
    /\ Built
    /\ ki = 2
    /\ best # NoSolution
    /\ best.k = k_vals[1]
    /\ total_cost > best.total_cost
    /\ centers # best.centers
    /\ assigned # best.assigned
    /\ demand_list # best.demand_per_wh

====
